---- MODULE Spec2Model ----
(***************************************************************************)
(* Model of 0206_queue.py: two worker-pool programs built on the standard  *)
(* library's queue module.                                                  *)
(*   "priority": a PriorityQueue of Job objects, filled by the main thread, *)
(*               then drained by two daemon threads running process_job.    *)
(*   "fifo":     a Queue of enclosure URLs, drained by num_fetch_threads    *)
(*               daemon threads running download_enclosures while the main  *)
(*               thread is still putting.                                    *)
(* Each queue method runs under the queue's mutex, so it is one atomic      *)
(* step, except where it waits on a condition variable.                     *)
(***************************************************************************)
EXTENDS Integers, Sequences, FiniteSets, TLC

\* ------------------------------------------------------------------ bounds
MaxJobs == 4
MaxUrls == 3

\* ------------------------------------------------------- program constants
num_fetch_threads == 2
Workers == 1..num_fetch_threads

\* Priorities used by the example (lines 39-41); lower value = served first.
Priorities == {2, 3, 42}

\* The description that the example attaches to each priority
\* (the source's strings are Chinese: high / medium / low priority).
Description(p) ==
  IF p = 2 THEN "high priority" ELSE IF p = 3 THEN "medium priority" ELSE "low priority"

\* Job.__init__: a Job carries a priority and a description; id is the
\* object's identity (its position in the order of construction).
Job(i, p) == [id |-> i, priority |-> p, description |-> Description(p)]

\* The three puts of the example, in source order.
ExampleJobs == <<Job(1, 3), Job(2, 42), Job(3, 2)>>

\* Mutant of Job_lt: the comparison turned around.
Job_lt_reversed(a, b) == a.priority > b.priority

\* Job.__lt__: comparison looks at the priority only.
Job_lt(a, b) == a.priority < b.priority

\* Job.__eq__: equality of priorities, not of payloads.
Job_eq(a, b) == a.priority = b.priority

\* URLs are strings, modelled as sequences of characters.
EnclosureUrls ==
  { <<"h", "/", "a">>, <<"g", "/", "a">>, <<"h", "/", "b">> }

\* url.rpartition("/")[-1]: what follows the last "/" (the whole string
\* when there is none).
RECURSIVE rpartition_last(_)
rpartition_last(s) ==
  IF s = <<>> THEN <<>>
  ELSE IF s[Len(s)] = "/" THEN <<>>
  ELSE Append(rpartition_last(SubSeq(s, 1, Len(s) - 1)), s[Len(s)])

\* ------------------------------------------------------------------ heapq
\* Positions are 0-based as in the library; At/Set translate to sequences.
At(h, p) == h[p + 1]
Set(h, p, x) == [h EXCEPT ![p + 1] = x]

\* heapq._siftdown(heap, startpos, pos) with newitem held aside.
RECURSIVE siftdown(_, _, _, _)
siftdown(h, startpos, pos, newitem) ==
  IF pos > startpos
  THEN LET parentpos == (pos - 1) \div 2
           parent == At(h, parentpos)
       IN IF Job_lt(newitem, parent)
          THEN siftdown(Set(h, pos, parent), startpos, parentpos, newitem)
          ELSE Set(h, pos, newitem)
  ELSE Set(h, pos, newitem)

\* heapq.heappush: append, then sift the new item towards the root.
heappush(h, item) ==
  LET a == Append(h, item)
  IN siftdown(a, 0, Len(a) - 1, item)

\* Mutant of siftup: the right child is never looked at.
RECURSIVE siftup_left_only(_, _, _, _)
siftup_left_only(h, startpos, pos, newitem) ==
  LET endpos == Len(h)
      childpos == 2 * pos + 1
  IN IF childpos < endpos
     THEN siftup_left_only(Set(h, pos, At(h, childpos)), startpos, childpos, newitem)
     ELSE siftdown(Set(h, pos, newitem), startpos, pos, newitem)

\* heapq._siftup(heap, pos): bubble the smaller child up until a leaf,
\* then sift newitem down from there.
RECURSIVE siftup(_, _, _, _)
siftup(h, startpos, pos, newitem) ==
  LET endpos == Len(h)
      childpos == 2 * pos + 1
      rightpos == childpos + 1
      c == IF rightpos < endpos /\ ~Job_lt(At(h, childpos), At(h, rightpos))
           THEN rightpos ELSE childpos
  IN IF childpos < endpos
     THEN siftup(Set(h, pos, At(h, c)), startpos, c, newitem)
     ELSE siftdown(Set(h, pos, newitem), startpos, pos, newitem)

\* heapq.heappop: <<returned item, remaining heap>>.
heappop(h) ==
  LET lastelt == h[Len(h)]
      rest == SubSeq(h, 1, Len(h) - 1)
  IN IF rest # <<>>
     THEN <<rest[1], siftup(Set(rest, 0, lastelt), 0, 0, lastelt)>>
     ELSE <<lastelt, rest>>

\* ------------------------------------------------------------ queue.Queue
\* Queue._put / Queue._get for the two disciplines.
\* Mutant of PriorityQueue_put: the item is appended as a plain Queue does.
PriorityQueue_put_append(q, item) == Append(q, item)

\* Mutant of Queue_get: the item is returned and left in the queue.
Queue_get_peek(q) == <<Head(q), q>>

\* Mutant of Queue_get: the newest item is taken (LifoQueue).
Queue_get_newest(q) == <<q[Len(q)], SubSeq(q, 1, Len(q) - 1)>>

PriorityQueue_put(q, item) == heappush(q, item)
PriorityQueue_get(q) == heappop(q)
Queue_put(q, item) == Append(q, item)
Queue_get(q) == <<Head(q), Tail(q)>>


\* _put/_get of the queue class each program constructs (lines 37 and 83).
put_item(program, q, item) ==
  IF program = "priority" THEN PriorityQueue_put(q, item) ELSE Queue_put(q, item)
get_item(program, q) ==
  IF program = "priority" THEN PriorityQueue_get(q) ELSE Queue_get(q)

\* Mutant of unfinished_after_put: the increment is missing.
unfinished_after_put_same(u) == u

\* put(): unfinished_tasks += 1.
unfinished_after_put(u) == u + 1

\* Mutant of unfinished_after_task_done: the task is counted done twice.
unfinished_after_task_done_twice(u) == u - 2

\* task_done(): unfinished = unfinished_tasks - 1.
unfinished_after_task_done(u) == u - 1

\* Mutant of get_outcome: get(block=False), which raises Empty.
get_outcome_nowait(qsize) == IF qsize = 0 THEN "raise" ELSE "take"

\* get() with the default arguments (block=True, timeout=None): wait on
\* not_empty while the queue is empty, never raise Empty.
get_outcome(qsize) == IF qsize = 0 THEN "wait" ELSE "take"

\* Mutant of join_blocks: join() returns at once.
join_never_blocks(u) == FALSE

\* join(): wait on all_tasks_done while unfinished_tasks is non-zero.
join_blocks(u) == u # 0

\* Mutant of notify_one: put() wakes nobody.
notify_nobody(waiters) == {}

\* Condition.notify() as put() calls it on not_empty: the longest-waiting
\* consumer is woken, if there is one.
notify_one(waiters) == IF waiters # <<>> THEN {Head(waiters)} ELSE {}

\* Mutant of daemon: the threads are ordinary threads.
daemon_false == FALSE

\* Thread(..., daemon=True): the interpreter does not wait for the worker
\* threads when the main thread ends.
daemon == TRUE

\* Mutant of StepAfter: task_done() is called right after get(), before
\* the work on the task.
StepAfter_done_first(p, step) ==
  IF p = "priority"
  THEN (IF step = "get" THEN "task_done"
        ELSE IF step = "task_done" THEN "print" ELSE "get")
  ELSE (IF step = "get" THEN "task_done"
        ELSE IF step = "task_done" THEN "fetch"
        ELSE IF step = "fetch" THEN "open"
        ELSE IF step = "open" THEN "write" ELSE "get")

\* The order of the statements in the body of a worker's while True loop:
\* process_job (lines 45-48) and download_enclosures (lines 103-121).
StepAfter(p, step) ==
  IF p = "priority"
  THEN (IF step = "get" THEN "print"
        ELSE IF step = "print" THEN "task_done" ELSE "get")
  ELSE (IF step = "get" THEN "fetch"
        ELSE IF step = "fetch" THEN "open"
        ELSE IF step = "open" THEN "write"
        ELSE IF step = "write" THEN "task_done" ELSE "get")

\* ------------------------------------------------------------------ state
VARIABLES
  program,          \* which of the two programs of the file runs
  input,            \* the items the main thread puts, in source order
  mpc, mi,          \* main thread: position and loop index
  wpc,              \* worker threads: position
  queue,            \* the queue's buffer (heap array / deque)
  unfinished_tasks, \* the queue's in-flight counter
  not_empty,        \* workers waiting on the not_empty condition, in order
  all_tasks_done,   \* threads waiting on the all_tasks_done condition
  held,             \* the item each worker got and has not finished
  error,            \* the exception that ended a worker, "" if none
  openFile,         \* the file each worker has open for writing
  saved,            \* ids of the tasks whose file was written and closed
  putSeq,           \* history: items in the order put() completed
  gets,             \* history: items in the order get() returned them
  printed,          \* history: the "Processing job:" lines, in order
  nPut, nDone       \* history: number of put() and task_done() calls

vars == <<program, input, mpc, mi, wpc, queue, unfinished_tasks, not_empty,
          all_tasks_done, held, error, openFile, saved, putSeq, gets,
          printed, nPut, nDone>>

\* Sequences over S of length 0..n.
SeqUpTo(S, n) == UNION { [1..k -> S] : k \in 0..n }

\* The inputs of the priority program: Jobs with any of the priorities.
JobInputs ==
  { [i \in 1..Len(ps) |-> Job(i, ps[i])] : ps \in SeqUpTo(Priorities, MaxJobs) }

\* The inputs of the download program: the enclosure URLs of the feeds;
\* id is the position of the put.
UrlInputs ==
  { [i \in 1..Len(us) |-> [id |-> i, url |-> us[i]]] :
      us \in SeqUpTo(EnclosureUrls, MaxUrls) }

\* The order of the main thread's phases: the priority program puts, then
\* starts its workers (lines 39-60); the download program starts its
\* workers, then puts (lines 126-152).
FirstPhase(p) == IF p = "priority" THEN "put" ELSE "start"
PhaseAfter(p, ph) ==
  IF p = "priority"
  THEN (IF ph = "put" THEN "start" ELSE "join")
  ELSE (IF ph = "start" THEN "put" ELSE "join")
PhaseLen(ph) == IF ph = "put" THEN Len(input) ELSE num_fetch_threads

Init ==
  /\ program \in {"priority", "fifo"}
  /\ input \in (IF program = "priority" THEN JobInputs ELSE UrlInputs)
  /\ mpc = FirstPhase(program)
  /\ mi = 1
  /\ wpc = [w \in Workers |-> "unstarted"]
  /\ queue = <<>>
  /\ unfinished_tasks = 0
  /\ not_empty = <<>>
  /\ all_tasks_done = {}
  /\ held = [w \in Workers |-> <<>>]
  /\ error = [w \in Workers |-> ""]
  /\ openFile = [w \in Workers |-> <<>>]
  /\ saved = {}
  /\ putSeq = <<>>
  /\ gets = <<>>
  /\ printed = <<>>
  /\ nPut = 0
  /\ nDone = 0

\* ------------------------------------------------------------ main thread
\* q.put(item): _put, unfinished_tasks += 1, not_empty.notify() wakes the
\* longest-waiting consumer, which goes back to re-check the queue.
MainPut ==
  /\ mpc = "put"
  /\ mi <= Len(input)
  /\ queue' = put_item(program, queue, input[mi])
  /\ unfinished_tasks' = unfinished_after_put(unfinished_tasks)
  /\ LET woken == notify_one(not_empty)
     IN /\ wpc' = [w \in Workers |-> IF w \in woken THEN "get" ELSE wpc[w]]
        /\ not_empty' = IF woken # {} THEN Tail(not_empty) ELSE not_empty
  /\ mi' = mi + 1
  /\ putSeq' = Append(putSeq, input[mi])
  /\ nPut' = nPut + 1
  /\ UNCHANGED <<program, input, mpc, all_tasks_done, held, error, openFile,
                 saved, gets, printed, nDone>>

\* Thread(target=..., daemon=True).start()
MainStart ==
  /\ mpc = "start"
  /\ mi <= num_fetch_threads
  /\ wpc' = [wpc EXCEPT ![mi] = "get"]
  /\ mi' = mi + 1
  /\ UNCHANGED <<program, input, mpc, queue, unfinished_tasks, not_empty,
                 all_tasks_done, held, error, openFile, saved, putSeq, gets,
                 printed, nPut, nDone>>

\* The end of a for loop: on to the next phase.
MainLoopExit ==
  /\ mpc \in {"put", "start"}
  /\ mi > PhaseLen(mpc)
  /\ mpc' = PhaseAfter(program, mpc)
  /\ mi' = 1
  /\ UNCHANGED <<program, input, wpc, queue, unfinished_tasks, not_empty,
                 all_tasks_done, held, error, openFile, saved, putSeq, gets,
                 printed, nPut, nDone>>

\* q.join(): returns when unfinished_tasks is zero, else waits on
\* all_tasks_done until task_done() notifies, then checks again.
MainJoin ==
  /\ mpc = "join"
  /\ IF join_blocks(unfinished_tasks)
     THEN /\ mpc' = "join_wait"
          /\ all_tasks_done' = all_tasks_done \cup {"main"}
     ELSE /\ mpc' = "done"
          /\ UNCHANGED all_tasks_done
  /\ UNCHANGED <<program, input, mi, wpc, queue, unfinished_tasks, not_empty,
                 held, error, openFile, saved, putSeq, gets, printed, nPut,
                 nDone>>

\* The main thread ends: the process exits and takes its daemon threads
\* with it, wherever they are (it would wait for the end of threads that
\* are not daemons).
MainExit ==
  /\ mpc = "done"
  /\ daemon \/ \A w \in Workers : wpc[w] = "dead"
  /\ mpc' = "exited"
  /\ wpc' = [w \in Workers |-> IF wpc[w] = "dead" THEN "dead" ELSE "killed"]
  /\ UNCHANGED <<program, input, mi, queue, unfinished_tasks, not_empty,
                 all_tasks_done, held, error, openFile, saved, putSeq, gets,
                 printed, nPut, nDone>>

\* ---------------------------------------------------------------- workers
\* next_job = q.get() / url = q.get()
WorkerGet(w) ==
  /\ wpc[w] = "get"
  /\ LET outcome == get_outcome(Len(queue))
     IN CASE outcome = "wait" ->
               /\ wpc' = [wpc EXCEPT ![w] = "get_wait"]
               /\ not_empty' = Append(not_empty, w)
               /\ UNCHANGED <<queue, held, gets, error>>
          [] outcome = "take" ->
               LET r == get_item(program, queue)
               IN /\ queue' = r[2]
                  /\ held' = [held EXCEPT ![w] = <<r[1]>>]
                  /\ gets' = Append(gets, r[1])
                  /\ wpc' = [wpc EXCEPT ![w] = StepAfter(program, "get")]
                  /\ UNCHANGED <<not_empty, error>>
          [] OTHER ->
               /\ wpc' = [wpc EXCEPT ![w] = "dead"]
               /\ error' = [error EXCEPT ![w] = "Empty"]
               /\ UNCHANGED <<queue, held, gets, not_empty>>
  /\ UNCHANGED <<program, input, mpc, mi, unfinished_tasks, all_tasks_done,
                 openFile, saved, putSeq, printed, nPut, nDone>>

\* print("Processing job:", next_job.description)
WorkerPrint(w) ==
  /\ wpc[w] = "print"
  /\ printed' = Append(printed, held[w][1].description)
  /\ wpc' = [wpc EXCEPT ![w] = StepAfter(program, "print")]
  /\ UNCHANGED <<program, input, mpc, mi, queue, unfinished_tasks, not_empty,
                 all_tasks_done, held, error, openFile, saved, putSeq, gets,
                 nPut, nDone>>

\* urlopen(req) and response.read() return the data.
WorkerFetch(w) ==
  /\ wpc[w] = "fetch"
  /\ wpc' = [wpc EXCEPT ![w] = StepAfter(program, "fetch")]
  /\ UNCHANGED <<program, input, mpc, mi, queue, unfinished_tasks, not_empty,
                 all_tasks_done, held, error, openFile, saved, putSeq, gets,
                 printed, nPut, nDone>>

\* urlopen(req) or response.read() raises: nothing catches it, the thread
\* ends with the task still held and task_done() never called.
WorkerFetchFails(w) ==
  /\ wpc[w] = "fetch"
  /\ wpc' = [wpc EXCEPT ![w] = "dead"]
  /\ error' = [error EXCEPT ![w] = "URLError"]
  /\ UNCHANGED <<program, input, mpc, mi, queue, unfinished_tasks, not_empty,
                 all_tasks_done, held, openFile, saved, putSeq, gets, printed,
                 nPut, nDone>>

\* open(filename, "wb") with filename = url.rpartition("/")[-1]
WorkerOpen(w) ==
  /\ wpc[w] = "open"
  /\ openFile' = [openFile EXCEPT ![w] = <<rpartition_last(held[w][1].url)>>]
  /\ wpc' = [wpc EXCEPT ![w] = StepAfter(program, "open")]
  /\ UNCHANGED <<program, input, mpc, mi, queue, unfinished_tasks, not_empty,
                 all_tasks_done, held, error, saved, putSeq, gets, printed,
                 nPut, nDone>>

\* open() raises OSError: the thread ends as in WorkerFetchFails.
WorkerOpenFails(w) ==
  /\ wpc[w] = "open"
  /\ wpc' = [wpc EXCEPT ![w] = "dead"]
  /\ error' = [error EXCEPT ![w] = "OSError"]
  /\ UNCHANGED <<program, input, mpc, mi, queue, unfinished_tasks, not_empty,
                 all_tasks_done, held, openFile, saved, putSeq, gets, printed,
                 nPut, nDone>>

\* outfile.write(data) and the end of the with block, which closes the file.
WorkerWrite(w) ==
  /\ wpc[w] = "write"
  /\ openFile' = [openFile EXCEPT ![w] = <<>>]
  /\ saved' = saved \cup {held[w][1].id}
  /\ wpc' = [wpc EXCEPT ![w] = StepAfter(program, "write")]
  /\ UNCHANGED <<program, input, mpc, mi, queue, unfinished_tasks, not_empty,
                 all_tasks_done, held, error, putSeq, gets, printed, nPut,
                 nDone>>

\* q.task_done(): raises ValueError below zero, notify_all at zero (every
\* thread waiting in join() goes back to re-check), stores the counter;
\* then the loop starts over.
WorkerTaskDone(w) ==
  /\ wpc[w] = "task_done"
  /\ LET unfinished == unfinished_after_task_done(unfinished_tasks)
     IN IF unfinished < 0
        THEN /\ wpc' = [wpc EXCEPT ![w] = "dead"]
             /\ error' = [error EXCEPT ![w] = "ValueError"]
             /\ UNCHANGED <<mpc, all_tasks_done, unfinished_tasks, held, nDone>>
        ELSE /\ IF unfinished = 0
                THEN /\ mpc' = IF "main" \in all_tasks_done THEN "join" ELSE mpc
                     /\ all_tasks_done' = {}
                ELSE UNCHANGED <<mpc, all_tasks_done>>
             /\ unfinished_tasks' = unfinished
             /\ held' = [held EXCEPT ![w] = <<>>]
             /\ nDone' = nDone + 1
             /\ wpc' = [wpc EXCEPT ![w] = StepAfter(program, "task_done")]
             /\ UNCHANGED error
  /\ UNCHANGED <<program, input, mi, queue, not_empty, openFile, saved, putSeq,
                 gets, printed, nPut>>

Main == MainPut \/ MainStart \/ MainLoopExit \/ MainJoin \/ MainExit

Worker(w) ==
  \/ WorkerGet(w)
  \/ WorkerPrint(w)
  \/ WorkerFetch(w)
  \/ WorkerFetchFails(w)
  \/ WorkerOpen(w)
  \/ WorkerOpenFails(w)
  \/ WorkerWrite(w)
  \/ WorkerTaskDone(w)

Next == Main \/ \E w \in Workers : Worker(w)

Spec == Init /\ [][Next]_vars

\* The scheduler runs every thread that can take a step.
FairSpec == Spec /\ WF_vars(Main) /\ \A w \in Workers : WF_vars(Worker(w))

\* ---------------------------------------------------------------- claims
\* A step in which some get() returned, and what it returned.
GetReturned == Len(gets') = Len(gets) + 1
Returned == gets'[Len(gets')]

\* The ids of the items in a sequence.
Ids(q) == { q[k].id : k \in 1..Len(q) }

\* C1: in the priority program, a get() never returns a Job with priority
\* value P while a Job with a smaller priority value is pending in the
\* queue at the instant of that get().
C1_GetReturnsMinimum ==
  [][(program = "priority" /\ GetReturned) =>
       \A k \in 1..Len(queue) : ~(queue[k].priority < Returned.priority)]_vars

\* C1 witness: a get() has returned a Job that was not the first one put,
\* and a Job of larger priority value is still pending.
C1_Witness ==
  /\ program = "priority"
  /\ gets # <<>>
  /\ gets[Len(gets)].id # 1
  /\ \E k \in 1..Len(queue) : queue[k].priority > gets[Len(gets)].priority

\* C2: in the download program, the values returned by get(), in the order
\* the get() calls complete across all workers, are the values in the
\* order they were put.
C2_FifoOrder ==
  program = "fifo" =>
    /\ Len(gets) <= Len(putSeq)
    /\ gets = SubSeq(putSeq, 1, Len(gets))

\* C2 witness: both workers hold a URL, worker 2 got the earlier one, and
\* the main thread is still putting.
C2_Witness ==
  /\ program = "fifo"
  /\ mpc = "put" /\ mi <= Len(input)
  /\ held[1] # <<>> /\ held[2] # <<>>
  /\ held[2][1].id < held[1][1].id

\* C3: join() returns only when the in-flight counter is zero, that is
\* when as many task_done() calls completed as put() calls; and a join()
\* that is blocked when the counter is zero returns.
C3_JoinIffZero ==
  /\ [][(mpc \in {"join", "join_wait"} /\ mpc' = "done") =>
          (unfinished_tasks = 0 /\ nDone = nPut)]_vars
  /\ ((mpc \in {"join", "join_wait"} /\ unfinished_tasks = 0)
        ~> (mpc \in {"done", "exited"}))

\* C3 witness: join() has returned after several tasks were completed.
C3_Witness ==
  /\ mpc = "done"
  /\ nPut >= 2
  /\ nDone = nPut

\* C4: the in-flight counter is the number of put() calls minus the number
\* of task_done() calls, one increment per task enqueued, and it is never
\* negative.
C4_CounterIsPutsMinusDones ==
  /\ unfinished_tasks = nPut - nDone
  /\ nPut = Len(putSeq)
  /\ unfinished_tasks >= 0

\* C4 witness: some tasks are done and others are still in flight.
C4_Witness ==
  /\ nPut >= 2
  /\ nDone >= 1
  /\ unfinished_tasks >= 1

\* C5: with N tasks enqueued in total, the workers' get() calls eventually
\* retrieve all N tasks, each exactly once.
C5_AllRetrievedOnce ==
  /\ [](\A i \in 1..Len(input) :
          Cardinality({ k \in 1..Len(gets) : gets[k].id = i }) <= 1)
  /\ <>(\A i \in 1..Len(input) :
          Cardinality({ k \in 1..Len(gets) : gets[k].id = i }) = 1)

C7_GetsNonDecreasing ==
  program = "priority" =>
    /\ \A i, j \in 1..Len(gets) : i < j => gets[i].priority <= gets[j].priority
    /\ (input = ExampleJobs /\ Len(gets) = 3) =>
         [k \in 1..3 |-> gets[k].priority] = <<2, 3, 42>>

\* C7 witness: the example's three Jobs have all been returned.
C7_Witness ==
  /\ program = "priority"
  /\ input = ExampleJobs
  /\ Len(gets) = 3
  /\ held[1] # <<>> /\ held[2] # <<>>

\* C8: the priority example prints its three "Processing job:" lines in
\* the order high, medium, low priority, however the two workers interleave.
C8_PrintOrder ==
  (program = "priority" /\ input = ExampleJobs /\ Len(printed) = 3) =>
    printed = <<"high priority", "medium priority", "low priority">>

\* C9: in the download program, join() returns only after task_done() was
\* called for every enqueued URL, and every enqueued URL was processed.
C9_JoinAfterAllDone ==
  (program = "fifo" /\ mpc \in {"done", "exited"}) =>
    /\ nPut = Len(input)
    /\ nDone = Len(input)
    /\ saved = 1..Len(input)
    /\ Cardinality(saved) = Len(input)

\* C9 witness: join() has returned in the download program with as many
\* URLs as the bound allows, two of them distinct.
C9_Witness ==
  /\ program = "fifo"
  /\ mpc = "done"
  /\ Len(input) >= 3
  /\ input[1].url # input[2].url

\* C10: get() on an empty queue is never an error: the worker waits, stays
\* waiting until a put() has made a task available (or the process exits),
\* and no worker ends with the Empty exception.
C10_GetBlocksOnEmpty ==
  [][\A w \in Workers :
       /\ error'[w] # "Empty"
       /\ (wpc[w] = "get" /\ queue = <<>> /\ wpc'[w] # "get")
            => \/ (wpc'[w] = "get_wait" /\ held'[w] = <<>>)
               \/ wpc'[w] = "killed"
       /\ (wpc[w] = "get_wait" /\ wpc'[w] # "get_wait")
            => \/ (wpc'[w] = "get" /\ queue' # <<>>)
               \/ wpc'[w] = "killed"
       /\ (Len(gets') > Len(gets)) => queue # <<>>]_vars

\* C10 witness: a worker waits in get() on the empty queue while the main
\* thread still has URLs to put.
C10_Witness ==
  /\ program = "fifo"
  /\ \E w \in Workers : wpc[w] = "get_wait" /\ not_empty # <<>>
  /\ queue = <<>>
  /\ gets # <<>>
  /\ mpc = "put" /\ mi <= Len(input)

\* The workers that hold a task, and the positions between a get() and
\* the end of the task_done() that follows it.
Holders == { w \in Workers : held[w] # <<>> }
Working == {"print", "fetch", "open", "write", "task_done"}

\* C11: task_done() runs on every code path after get(): every task that
\* was retrieved has had its task_done() call, unless its worker is still
\* working on it, whether the work succeeded or failed.
C11_TaskDoneOnEveryPath ==
  nDone = Len(gets) - Cardinality({ w \in Workers : wpc[w] \in Working })

\* C12: when the processing of a task has failed in a worker, the main
\* thread's join() still returns eventually.
C12_JoinReturnsAfterFailure ==
  (\E w \in Workers : error[w] # "") ~> (mpc \in {"done", "exited"})

\* C13: no worker thread has ended while the main thread is still running,
\* also when a fetch or a file write has failed.
C13_WorkersNeverEnd ==
  \A w \in Workers : wpc[w] \in {"dead", "killed"} => mpc = "exited"

\* C14: there is no deadlock: it never stays so for ever that a task is
\* pending while every worker is blocked in get(), nor that the in-flight
\* counter is zero while the main thread is blocked in join().
C14_NoDeadlock ==
  /\ ~<>[](/\ queue # <<>>
           /\ \A w \in Workers : wpc[w] \in {"get", "get_wait"})
  /\ ~<>[](/\ unfinished_tasks = 0
           /\ mpc \in {"join", "join_wait"})

\* C14 witness: both workers wait in get() on the empty queue, the main
\* thread has a task to put.
C14_Witness ==
  /\ \A w \in Workers : wpc[w] = "get_wait"
  /\ queue = <<>>
  /\ mpc = "put" /\ mi <= Len(input)

\* C15: when no processing step fails, the main thread eventually gets
\* past join() and the process ends; the daemon workers, wherever they
\* are, never hold the exit back.
C15_ProcessTerminates ==
  /\ ([](\A w \in Workers : error[w] = "")) => <>(mpc = "exited")
  /\ [](mpc = "done" => ENABLED MainExit)

\* C15 witness: the process has ended after completing several tasks, and
\* a worker that was blocked in get() ended with it.
C15_Witness ==
  /\ mpc = "exited"
  /\ nDone >= 2
  /\ \E w \in Workers : wpc[w] = "killed"
  /\ not_empty # <<>>

\* A step in which worker w completes task_done().
TaskDoneBy(w) == nDone' = nDone + 1 /\ wpc[w] # wpc'[w]

\* C16: a worker calls task_done() for a task only after finishing the work
\* on it (the print; the fetch, the write and the close of the file), and
\* calls get() again only after task_done() for the task it got before.
C16_GetProcessTaskDone ==
  [][\A w \in Workers :
       /\ TaskDoneBy(w) =>
            /\ held[w] # <<>>
            /\ program = "priority" => Len(printed) >= nDone'
            /\ program = "fifo" => (held[w][1].id \in saved /\ openFile[w] = <<>>)
       /\ (Len(gets') > Len(gets) /\ wpc[w] # wpc'[w]) =>
            /\ held[w] = <<>>
            /\ wpc[w] = "get"
            /\ nDone = Len(gets) - Cardinality(Holders)]_vars

\* C16 witness: a worker is in its second iteration, holding a task after
\* having completed one, while the other worker holds a task too.
C16_Witness ==
  /\ nDone >= 1
  /\ Holders = Workers
  /\ \E w \in Workers : wpc[w] = "task_done"

\* C17: every enqueued task is in exactly one place: pending in the queue
\* (once), held by exactly one worker, or completed.
Completed == Ids(gets) \ { held[w][1].id : w \in Holders }
C17_ExclusiveOwnership ==
  /\ \A i \in Ids(putSeq) :
       Cardinality({ k \in 1..Len(queue) : queue[k].id = i })
         + Cardinality({ w \in Holders : held[w][1].id = i })
         + (IF i \in Completed THEN 1 ELSE 0) = 1
  /\ Ids(queue) \cup Ids(gets) = Ids(putSeq)
  /\ Cardinality(Completed) = nDone

\* C17 witness: tasks in all three places at once.
C17_Witness ==
  /\ queue # <<>>
  /\ Holders = Workers
  /\ nDone >= 1

\* C18: as long as no processing step has failed, the in-flight counter is
\* the number of pending tasks plus the number of workers that hold a
\* task, so it is zero exactly when the queue is empty and no worker holds
\* a task.
C18_CounterIsPendingPlusHeld ==
  (\A w \in Workers : error[w] = "") =>
    /\ unfinished_tasks = Len(queue) + Cardinality(Holders)
    /\ unfinished_tasks = 0 <=> (queue = <<>> /\ Holders = {})

\* C18 witness: the counter counts pending and held tasks together.
C18_Witness ==
  /\ \A w \in Workers : error[w] = ""
  /\ Len(queue) >= 1
  /\ Cardinality(Holders) = 2
  /\ unfinished_tasks >= 3

\* The files that were written and closed, by name.
SavedFiles == { rpartition_last(input[i].url) : i \in saved }

\* C19: in the download program, when the main thread has returned from
\* join(), which it called after its last put(), the file of every
\* enqueued URL has been written and closed.
C19_FilesWrittenAtJoin ==
  (program = "fifo" /\ mpc \in {"done", "exited"}) =>
    /\ nPut = Len(input)
    /\ \A i \in 1..Len(input) :
         i \in saved /\ rpartition_last(input[i].url) \in SavedFiles
    /\ \A w \in Workers : openFile[w] = <<>>

\* C19 witness: join() has returned after both workers saved files, the
\* files of two URLs that share their last path segment among them.
C19_Witness ==
  /\ program = "fifo"
  /\ mpc = "done"
  /\ Len(input) >= 3
  /\ Cardinality(SavedFiles) = 2

\* C20: no two fetch workers have the same output file open for writing at
\* the same time, whatever distinct URLs were enqueued.
C20_NoSharedOpenFile ==
  \A v, w \in Workers :
    (/\ v # w
     /\ openFile[v] # <<>> /\ openFile[w] # <<>>
     /\ held[v][1].url # held[w][1].url) => openFile[v] # openFile[w]

====
